---------------------------- MODULE Spec2Model ----------------------------
(***************************************************************************)
(* Model of the debate programs of this repository:                        *)
(*   - the text-shaping functions of infinite_debate/main.py               *)
(*     (limpiar_formato, limitar_oraciones, recortar_a_rango,              *)
(*     asegurar_pregunta, es_corto, postprocesar)            SpecTexto     *)
(*   - ollama_request with _extraer_contenido_ollama         SpecOllama    *)
(*   - generar_respuesta on top of ollama_request            SpecGenerar   *)
(*   - MemoriaDebate                                         SpecMemoria   *)
(*   - the drivers ai_debate.run_debate and main.debate      SpecDebate    *)
(* A text is a sequence of one-character strings; the hint MemoriaDebate    *)
(* builds is a sequence of its fixed phrases and the recorded names.  An    *)
(* optional value (Python's None, a missing key) is a sequence of length 0  *)
(* or 1.                                                                    *)
(***************************************************************************)
EXTENDS Integers, Sequences, FiniteSets, TLC

VARIABLES
  \* --- one call of a text function (SpecTexto)
  texto,           \* the argument
  personaje,       \* the persona argument ("-": none)
  eleccion,        \* the index random.choice picked in the call (0: none)
  op,              \* the function called ("ninguna" before the call)
  salida,          \* its return value
  \* --- ollama_request (SpecOllama, SpecGenerar)
  servidor,        \* which answers the Ollama server can give
  ollama_retries,  \* OLLAMA_RETRIES
  retries,         \* argument retries: <<>> (None) or <<n>>
  o_pc,            \* "inactivo", "bucle", "retornado" or "fallado" (raised)
  intentos,        \* local intentos
  intento,         \* loop variable
  espera,          \* local espera
  last_error,      \* local last_error: <<>> or <<exception type>>
  o_ret,           \* the return value: <<>> or <<text>>
  peticiones,      \* history: requests.post calls made by this call
  esperas,         \* history: the time.sleep durations of this call
  historial,       \* history: the outcome of every attempt of this call
  ultimo_payload,  \* history: <<>> or <<the JSON body the last attempt got>>
  \* --- generar_respuesta (SpecGenerar)
  g_pc,            \* "ninguno", "inicio", "primaria", "reintento", "hecho", "error"
  g_personaje,     \* argument personaje
  g_texto,         \* local texto: <<>> or <<text>>
  g_resultado,     \* the return value: <<>> or <<text>>
  g_error,         \* <<>> or <<the persona the raised RuntimeError names>>
  g_eleccion,      \* the index random.choice picked in postprocesar (0: none)
  llamadas,        \* history: the outcome of every ollama_request call
  borradores,      \* history: the text every successful call returned
  \* --- MemoriaDebate (SpecMemoria)
  metricas_buffett,
  metricas_cheah,
  empresas,
  temas,
  m_op,            \* the method called last ("__init__" after construction)
  m_personaje,     \* the persona argument of the last obtener_contexto_evitacion
  contexto,        \* the value the last obtener_contexto_evitacion returned
  dichas,          \* history: the names passed to the registrar_ methods so far
  \* --- run_debate and debate (SpecDebate)
  programa,        \* "run_debate" or "debate"
  d_pc,            \* "inicio", "bucle", "retornado" or "error" (raised)
  claves,          \* the API key environment variables that are set
  turns,           \* argument turns / turnos
  first_speaker,   \* argument first_speaker
  order,           \* local order
  turn,            \* loop variable turn / i
  transcript,      \* local transcript
  mensaje,         \* local mensaje of debate()
  buffett_respuesta, \* local buffett_respuesta of debate()
  hablante,        \* debate(): whose generar_respuesta call comes next
  generaciones     \* history: every generar_respuesta call of debate()

varsTexto == <<texto, personaje, eleccion, op, salida>>
varsOllama == <<servidor, ollama_retries, retries, o_pc, intentos, intento, espera, last_error,
                o_ret, peticiones, esperas, historial, ultimo_payload>>
varsGenerar == <<g_pc, g_personaje, g_texto, g_resultado, g_error, g_eleccion,
                 llamadas, borradores>>
varsMemoria == <<metricas_buffett, metricas_cheah, empresas, temas, m_op, m_personaje,
                 contexto, dichas>>
varsDebate == <<programa, d_pc, claves, turns, first_speaker, order, turn, transcript,
                mensaje, buffett_respuesta, hablante, generaciones>>
vars == <<varsTexto, varsOllama, varsGenerar, varsMemoria, varsDebate>>

(***************************************************************************)
(* Characters.                                                             *)
(***************************************************************************)
\* Python's \s and str.strip() whitespace, restricted to the characters used.
Espacios == {" ", "\n", "\t"}
\* [.!?]
Marcas == {".", "!", "?"}
\* [*\-]
Vinetas == {"*", "-"}

MIN_LEN == 350
MAX_LEN == 550

PREGUNTAS_BUFFETT ==
  <<
    <<
       "N","o"," ","c","r","e","e","s"," ","q","u","e"," ","e","s","t","a","s"," ","s",
       "o","b","r","e","v","a","l","o","r","a","n","d","o"," ","e","l"," ","c","r","e",
       "c","i","m","i","e","n","t","o"," ","f","r","e","n","t","e"," ","a"," ","l","a",
       " ","c","a","l","i","d","a","d","?"
    >>,
    <<
       "C","o","m","o"," ","j","u","s","t","i","f","i","c","a","s"," ","e","s","a"," ",
       "v","a","l","u","a","c","i","o","n"," ","c","o","n"," ","R","O","E","s"," ","m",
       "o","d","e","s","t","o","s","?"
    >>,
    <<
       "N","o"," ","s","u","b","e","s","t","i","m","a","s"," ","e","l"," ","r","i","e",
       "s","g","o"," ","r","e","g","u","l","a","t","o","r","i","o"," ","e","n"," ","t",
       "u"," ","t","e","s","i","s","?"
    >>
  >>

PREGUNTAS_CHEAH ==
  <<
    <<
       "N","o"," ","e","s","t","a","s"," ","i","g","n","o","r","a","n","d","o"," ","e",
       "l"," ","d","i","v","i","d","e","n","d","o"," ","p","o","l","i","t","i","c","o",
       " ","(","h","o","n","g","l","i",")","?"
    >>,
    <<
       "C","o","m","o"," ","a","j","u","s","t","a","s"," ","t","u"," ","a","n","a","l",
       "i","s","i","s"," ","a"," ","l","a"," ","v","e","l","o","c","i","d","a","d"," ",
       "a","s","i","a","t","i","c","a","?"
    >>,
    <<
       "P","o","r"," ","q","u","e"," ","s","i","g","u","e","s"," ","b","u","s","c","a",
       "n","d","o"," ","a","n","a","l","o","g","o","s"," ","o","c","c","i","d","e","n",
       "t","a","l","e","s"," ","e","n"," ","u","n"," ","r","i","o"," ","d","i","s","t",
       "i","n","t","o","?"
    >>
  >>

(***************************************************************************)
(* str helpers.                                                            *)
(***************************************************************************)
\* n copies of character c
Repetir(c, n) == [i \in 1..n |-> c]

\* s[:n] for 0 <= n
Prefijo(s, n) == SubSeq(s, 1, IF n < Len(s) THEN n ELSE Len(s))

\* s[n:] with n a 0-based index

\* number of leading characters of s[i..] (1-based i) that belong to clase:
\* what a greedy clase* consumes at position i
RECURSIVE Tramo(_, _, _)
Tramo(s, i, clase) ==
  IF i <= Len(s) /\ s[i] \in clase THEN 1 + Tramo(s, i + 1, clase) ELSE 0

\* number of trailing characters of s[1..n] that belong to clase
RECURSIVE TramoFinal(_, _, _)
TramoFinal(s, n, clase) ==
  IF n >= 1 /\ s[n] \in clase THEN 1 + TramoFinal(s, n - 1, clase) ELSE 0

\* str.rstrip()
rstrip(s) == SubSeq(s, 1, Len(s) - TramoFinal(s, Len(s), Espacios))

\* str.lstrip()
lstrip(s) == SubSeq(s, 1 + Tramo(s, 1, Espacios), Len(s))

\* str.strip()
strip(s) == lstrip(rstrip(s))

\* str.endswith(c) for a one-character c
endswith(s, c) == Len(s) > 0 /\ s[Len(s)] = c

\* str.rfind(c, 0, fin): the highest 0-based index below fin holding c, or -1
rfind(s, c, fin) ==
  LET hasta == IF fin < Len(s) THEN fin ELSE Len(s)
      donde == {i \in 1..hasta : s[i] = c}
  IN  IF donde = {} THEN -1
      ELSE (CHOOSE i \in donde : \A j \in donde : j <= i) - 1

\* max(a, b, c)
Max3(a, b, c) ==
  LET ab == IF a >= b THEN a ELSE b IN IF ab >= c THEN ab ELSE c

\* sep.join(piezas)
RECURSIVE join(_, _)
join(sep, piezas) ==
  IF Len(piezas) = 0 THEN <<>>
  ELSE IF Len(piezas) = 1 THEN piezas[1]
  ELSE piezas[1] \o sep \o join(sep, Tail(piezas))

\* the first 1-based position at or after i whose character is in clase, or
\* Len(s) + 1: where a left-to-right scan for clase stops next
Primero(s, i, clase) ==
  LET donde == {j \in i..Len(s) : s[j] \in clase}
  IN  IF donde = {} THEN Len(s) + 1
      ELSE CHOOSE j \in donde : \A k \in donde : j <= k

(***************************************************************************)
(* limpiar_formato                                                         *)
(* Each re.sub replaces the leftmost non-overlapping matches: the scan      *)
(* copies the text up to the next place a match can start, replaces the     *)
(* match if there is one, and goes on after it.                             *)
(***************************************************************************)
\* re.sub(r"[*\-]+(\s+)", " ", s) from 1-based position i.  At a bullet
\* character the greedy [*\-]+ takes the whole run; the match succeeds only if
\* whitespace follows the run (a shorter run, or a later start inside the run,
\* is followed by a bullet character, never by whitespace), and then \s+ takes
\* the whole whitespace run.
RECURSIVE SubVinetas(_, _)
SubVinetas(s, i) ==
  LET j == Primero(s, i, Vinetas)
  IN  IF j > Len(s) THEN SubSeq(s, i, Len(s))
      ELSE LET v == Tramo(s, j, Vinetas)
               e == Tramo(s, j + v, Espacios)
           IN  IF e >= 1
                 THEN SubSeq(s, i, j - 1) \o <<" ">> \o SubVinetas(s, j + v + e)
                 ELSE SubSeq(s, i, j + v - 1) \o SubVinetas(s, j + v)

\* re.sub(r"\n+", " ", s)
RECURSIVE SubSaltos(_, _)
SubSaltos(s, i) ==
  LET j == Primero(s, i, {"\n"})
  IN  IF j > Len(s) THEN SubSeq(s, i, Len(s))
      ELSE SubSeq(s, i, j - 1) \o <<" ">> \o SubSaltos(s, j + Tramo(s, j, {"\n"}))

\* re.sub(r"\s{2,}", " ", s): a lone whitespace character is kept as it is
RECURSIVE SubEspacios(_, _)
SubEspacios(s, i) ==
  LET j == Primero(s, i, Espacios)
  IN  IF j > Len(s) THEN SubSeq(s, i, Len(s))
      ELSE LET e == Tramo(s, j, Espacios)
           IN  IF e >= 2
                 THEN SubSeq(s, i, j - 1) \o <<" ">> \o SubEspacios(s, j + e)
                 ELSE SubSeq(s, i, j) \o SubEspacios(s, j + 1)

\* s.replace("**", ""): non-overlapping occurrences, left to right
RECURSIVE QuitarNegritas(_, _)
QuitarNegritas(s, i) ==
  LET j == Primero(s, i, {"*"})
  IN  IF j > Len(s) THEN SubSeq(s, i, Len(s))
      ELSE IF j < Len(s) /\ s[j + 1] = "*"
        THEN SubSeq(s, i, j - 1) \o QuitarNegritas(s, j + 2)
        ELSE SubSeq(s, i, j) \o QuitarNegritas(s, j + 1)

limpiar_formato(t0) ==
  LET t1 == SubVinetas(t0, 1)
      t2 == SubSaltos(t1, 1)
      t3 == strip(SubEspacios(t2, 1))
  IN  QuitarNegritas(t3, 1)

(***************************************************************************)
(* limitar_oraciones                                                       *)
(***************************************************************************)
\* the first position at or after i where (?<=[.!?])\s+ matches: a whitespace
\* character directly after a mark; or Len(s) + 1
PrimerSeparador(s, i) ==
  LET donde == {j \in i..Len(s) : j > 1 /\ s[j] \in Espacios /\ s[j - 1] \in Marcas}
  IN  IF donde = {} THEN Len(s) + 1
      ELSE CHOOSE j \in donde : \A k \in donde : j <= k

\* re.split(r"(?<=[.!?])\s+", s) from position i: the separator takes the
\* whole whitespace run
RECURSIVE SplitOraciones(_, _)
SplitOraciones(s, i) ==
  LET j == PrimerSeparador(s, i)
  IN  IF j > Len(s) THEN <<SubSeq(s, i, Len(s))>>
      ELSE <<SubSeq(s, i, j - 1)>> \o SplitOraciones(s, j + Tramo(s, j, Espacios))

\* mutant: one sentence too many is kept
limitar_oraciones_de_mas(t0, max_oraciones) ==
  LET oraciones == SplitOraciones(t0, 1)
  IN  IF Len(oraciones) > max_oraciones
        THEN strip(join(<<" ">>, SubSeq(oraciones, 1, max_oraciones + 1)))
        ELSE t0

limitar_oraciones(t0, max_oraciones) ==
  LET oraciones == SplitOraciones(t0, 1)
  IN  IF Len(oraciones) > max_oraciones
        THEN strip(join(<<" ">>, SubSeq(oraciones, 1, max_oraciones)))
        ELSE t0

(***************************************************************************)
(* recortar_a_rango                                                        *)
(***************************************************************************)
\* mutant: the search window of rfind is one character too wide
recortar_a_rango_ventana(t0) ==
  IF Len(t0) <= MAX_LEN THEN t0
  ELSE LET corte == Max3(rfind(t0, ".", MAX_LEN + 1),
                         rfind(t0, "?", MAX_LEN + 1),
                         rfind(t0, "!", MAX_LEN + 1))
       IN  IF corte # -1 /\ corte + 1 >= MIN_LEN
             THEN strip(Prefijo(t0, corte + 1))
             ELSE rstrip(Prefijo(t0, MAX_LEN))

\* mutant: a cut at exactly MIN_LEN characters is refused
recortar_a_rango_estricto(t0) ==
  IF Len(t0) <= MAX_LEN THEN t0
  ELSE LET corte == Max3(rfind(t0, ".", MAX_LEN),
                         rfind(t0, "?", MAX_LEN),
                         rfind(t0, "!", MAX_LEN))
       IN  IF corte # -1 /\ corte + 1 > MIN_LEN
             THEN strip(Prefijo(t0, corte + 1))
             ELSE rstrip(Prefijo(t0, MAX_LEN))

recortar_a_rango(t0) ==
  IF Len(t0) <= MAX_LEN THEN t0
  ELSE LET corte == Max3(rfind(t0, ".", MAX_LEN),
                         rfind(t0, "?", MAX_LEN),
                         rfind(t0, "!", MAX_LEN))
       IN  IF corte # -1 /\ corte + 1 >= MIN_LEN
             THEN strip(Prefijo(t0, corte + 1))
             ELSE rstrip(Prefijo(t0, MAX_LEN))

(***************************************************************************)
(* asegurar_pregunta                                                       *)
(***************************************************************************)
\* re.sub(r"\?+\s*$", "?", s).  The pattern matches at a "?" exactly when the
\* run of "?" starting there, then the whitespace after it, reach the end of
\* the text; a run that does not is copied and the scan goes on after it.
\* mutant: the final run of "?" is left as it is
SubPreguntaFinal_sin_colapso(s, i) == SubSeq(s, i, Len(s))

RECURSIVE SubPreguntaFinal(_, _)
SubPreguntaFinal(s, i) ==
  LET j == Primero(s, i, {"?"})
  IN  IF j > Len(s) THEN SubSeq(s, i, Len(s))
      ELSE LET q == Tramo(s, j, {"?"})
               e == Tramo(s, j + q, Espacios)
           IN  IF j + q + e > Len(s) THEN SubSeq(s, i, j - 1) \o <<"?">>
               ELSE SubSeq(s, i, j + q - 1) \o SubPreguntaFinal(s, j + q)

\* the pool random.choice draws from
Pool(p) == IF p = "buffett" THEN PREGUNTAS_BUFFETT ELSE PREGUNTAS_CHEAH

\* k is the index random.choice(pool) picks
asegurar_pregunta(t0, p, k) ==
  LET t1 == rstrip(t0)
      t2 == IF ~endswith(t1, "?") THEN t1 \o <<" ">> \o Pool(p)[k] ELSE t1
  IN  SubPreguntaFinal(t2, 1)

(***************************************************************************)
(* es_corto                                                                *)
(***************************************************************************)
\* re.split(r"[.!?]", s) from position i: every mark is a separator
RECURSIVE SplitMarcas(_, _)
SplitMarcas(s, i) ==
  LET j == Primero(s, i, Marcas)
  IN  IF j > Len(s) THEN <<SubSeq(s, i, Len(s))>>
      ELSE <<SubSeq(s, i, j - 1)>> \o SplitMarcas(s, j + 1)

es_corto(t0) ==
  LET oraciones == SelectSeq(SplitMarcas(t0, 1), LAMBDA o : strip(o) # <<>>)
  IN  Len(t0) < MIN_LEN \/ Len(oraciones) < 2

(***************************************************************************)
(* postprocesar                                                            *)
(***************************************************************************)
postprocesar(t0, p, k) ==
  LET t1 == limpiar_formato(t0)
      t2 == limitar_oraciones(t1, 4)
      t3 == recortar_a_rango(t2)
  IN  asegurar_pregunta(t3, p, k)

(***************************************************************************)
(* The parts of the state a specification does not use, at rest.           *)
(***************************************************************************)
TextoInactivo ==
  /\ texto = <<>>
  /\ personaje = "-"
  /\ eleccion = 0
  /\ op = "ninguna"
  /\ salida = <<>>

\* the locals and histories of ollama_request before any call
OllamaSinLlamar ==
  /\ o_pc = "inactivo"
  /\ retries = <<>>
  /\ intentos = 0
  /\ intento = 0
  /\ espera = 0
  /\ last_error = <<>>
  /\ o_ret = <<>>
  /\ peticiones = 0
  /\ esperas = <<>>
  /\ historial = <<>>
  /\ ultimo_payload = <<>>

OllamaInactivo ==
  /\ servidor = "ninguno"
  /\ ollama_retries = 0
  /\ OllamaSinLlamar

GenerarSinLlamar ==
  /\ g_personaje = "-"
  /\ g_texto = <<>>
  /\ g_resultado = <<>>
  /\ g_error = <<>>
  /\ g_eleccion = 0
  /\ llamadas = <<>>
  /\ borradores = <<>>

GenerarInactivo ==
  /\ g_pc = "ninguno"
  /\ GenerarSinLlamar

MemoriaInactiva ==
  /\ metricas_buffett = {}
  /\ metricas_cheah = {}
  /\ empresas = {}
  /\ temas = {}
  /\ m_op = "ninguna"
  /\ m_personaje = "-"
  /\ contexto = <<>>
  /\ dichas = [buffett |-> {}, cheah |-> {}, empresas |-> {}, temas |-> {}]

DebateInactivo ==
  /\ programa = "ninguno"
  /\ d_pc = "inicio"
  /\ claves = {}
  /\ turns = 0
  /\ first_speaker = "-"
  /\ order = <<>>
  /\ turn = 0
  /\ transcript = <<>>
  /\ mensaje = "-"
  /\ buffett_respuesta = "-"
  /\ hablante = "-"
  /\ generaciones = <<>>

(***************************************************************************)
(* SpecTexto: one call of one text function on one input.                  *)
(***************************************************************************)
Personajes == {"buffett", "cheah"}

\* bounds of the input sets
MaxLenFormato == 4
MaxLenPregunta == 5
MaxFrases == 5
Holgura == 1

\* every text over alfabeto of length at most n
Textos(alfabeto, n) == UNION {[1..k -> alfabeto] : k \in 0..n}

\* markdown-like inputs: bullets, bold markers, newlines, blanks
TextosFormato == Textos({"a", " ", "\n", "*", "-"}, MaxLenFormato)

\* inputs with question marks and blanks anywhere
TextosPregunta == Textos({"a", " ", "?"}, MaxLenPregunta)

\* inputs made of up to MaxFrases fragments: a sentence with and without the
\* blank after its mark, a bare mark, a bare word
Frases == {<<"a", ".", " ">>, <<"a", "?">>, <<"!">>, <<"a", " ">>}
TextosOraciones == {join(<<>>, f) : f \in Textos(Frases, MaxFrases)}

\* inputs around MAX_LEN characters: cab, then filler up to a fragment med that
\* starts at position MIN_LEN - 1 + dp, filler up to a fragment col that starts
\* at position MAX_LEN - 1 + dq, then r more filler characters
TextoRango(cab, dp, med, dq, col, r) ==
  LET p1 == MIN_LEN - 2 + dp
      p2 == MAX_LEN - 2 + dq
  IN  cab \o Repetir("a", p1 - Len(cab)) \o med
          \o Repetir("a", p2 - p1 - Len(med)) \o col \o Repetir("a", r)

TextosRango ==
  {TextoRango(cab, dp, med, dq, col, r) :
     cab \in {<<>>, <<" ">>},
     dp \in 0..Holgura,
     med \in {<<"a">>, <<".">>, <<"?">>, <<" ">>},
     dq \in 0..(Holgura + 1),
     col \in {<<"a">>, <<".">>, <<"!">>, <<" ">>, <<" ", " ">>, <<".", " ">>},
     r \in 0..Holgura}

Entradas == TextosFormato \cup TextosPregunta \cup TextosOraciones \cup TextosRango

InitTexto ==
  /\ texto \in Entradas
  /\ personaje = "-"
  /\ eleccion = 0
  /\ op = "ninguna"
  /\ salida = <<>>
  /\ OllamaInactivo /\ GenerarInactivo /\ MemoriaInactiva /\ DebateInactivo

LlamarLimpiarFormato ==
  /\ op = "ninguna"
  /\ op' = "limpiar_formato"
  /\ salida' = limpiar_formato(texto)
  /\ UNCHANGED <<texto, personaje, eleccion>>
  /\ UNCHANGED <<varsOllama, varsGenerar, varsMemoria, varsDebate>>

\* the call postprocesar makes: max_oraciones = 4, which is also the default
LlamarLimitarOraciones ==
  /\ op = "ninguna"
  /\ op' = "limitar_oraciones"
  /\ salida' = limitar_oraciones(texto, 4)
  /\ UNCHANGED <<texto, personaje, eleccion>>
  /\ UNCHANGED <<varsOllama, varsGenerar, varsMemoria, varsDebate>>

LlamarRecortarARango ==
  /\ op = "ninguna"
  /\ op' = "recortar_a_rango"
  /\ salida' = recortar_a_rango(texto)
  /\ UNCHANGED <<texto, personaje, eleccion>>
  /\ UNCHANGED <<varsOllama, varsGenerar, varsMemoria, varsDebate>>

LlamarAsegurarPregunta ==
  /\ op = "ninguna"
  /\ \E p \in Personajes, e \in 1..3 :
       /\ personaje' = p
       /\ eleccion' = e
       /\ salida' = asegurar_pregunta(texto, p, e)
  /\ op' = "asegurar_pregunta"
  /\ UNCHANGED texto
  /\ UNCHANGED <<varsOllama, varsGenerar, varsMemoria, varsDebate>>

LlamarPostprocesar ==
  /\ op = "ninguna"
  /\ \E p \in Personajes, e \in 1..3 :
       /\ personaje' = p
       /\ eleccion' = e
       /\ salida' = postprocesar(texto, p, e)
  /\ op' = "postprocesar"
  /\ UNCHANGED texto
  /\ UNCHANGED <<varsOllama, varsGenerar, varsMemoria, varsDebate>>

NextTexto ==
  \/ LlamarLimpiarFormato
  \/ LlamarLimitarOraciones
  \/ LlamarRecortarARango
  \/ LlamarAsegurarPregunta
  \/ LlamarPostprocesar

SpecTexto == InitTexto /\ [][NextTexto]_vars

(***************************************************************************)
(* Properties of the text functions (SpecTexto).                           *)
(***************************************************************************)
\* 1-based positions i where s holds "?" at i and at i + 1
Rachas(s) == {i \in 1..(Len(s) - 1) : s[i] = "?" /\ s[i + 1] = "?"}

\* the text ends with exactly one "?"
TerminaEnUnaPregunta(s) ==
  /\ Len(s) >= 1
  /\ s[Len(s)] = "?"
  /\ Len(s) >= 2 => s[Len(s) - 1] # "?"

\* number of sentence-terminal marks in s
NumMarcas(s) == Cardinality({i \in 1..Len(s) : s[i] \in Marcas})

\* number of sentence boundaries in s: places where whitespace starts directly
\* after a mark
NumSeparadores(s) ==
  Cardinality({i \in 2..Len(s) : s[i] \in Espacios /\ s[i - 1] \in Marcas})

\* 1-based position of the rightmost mark among the first n characters, or 0
UltimaMarca(s, n) ==
  LET donde == {i \in 1..n : i <= Len(s) /\ s[i] \in Marcas}
  IN  IF donde = {} THEN 0 ELSE CHOOSE i \in donde : \A j \in donde : j <= i

\* C1 as stated: the output of asegurar_pregunta ends with exactly one "?" and
\* holds no run of two or more consecutive "?" anywhere.
C1_SinRachasEnNingunaParte ==
  op = "asegurar_pregunta" => TerminaEnUnaPregunta(salida) /\ Rachas(salida) = {}

\* C1 as amended: the output of asegurar_pregunta ends with exactly one "?";
\* a run of two or more "?" occurs in the output only before its end, at a
\* place where the input already holds it.
C1_TerminaEnUnaPregunta ==
  op = "asegurar_pregunta" =>
    /\ TerminaEnUnaPregunta(salida)
    /\ \A i \in Rachas(salida) : i + 1 < Len(salida) /\ i \in Rachas(texto)

\* C1 witness: an input ending in "??" followed by a blank has been collapsed.
C1_Testigo ==
  /\ op = "asegurar_pregunta"
  /\ Len(texto) >= 3
  /\ texto[Len(texto)] = " "
  /\ texto[Len(texto) - 1] = "?"
  /\ texto[Len(texto) - 2] = "?"
  /\ Len(salida) = Len(texto) - 2

\* C4: the output of recortar_a_rango has at most MAX_LEN characters, and an
\* input of at most MAX_LEN characters is returned unchanged.
C4_LongitudAcotada ==
  op = "recortar_a_rango" =>
    /\ Len(salida) <= MAX_LEN
    /\ Len(texto) <= MAX_LEN => salida = texto

\* C4 witness: an input longer than MAX_LEN cut to exactly MAX_LEN characters.
C4_Testigo ==
  /\ op = "recortar_a_rango"
  /\ Len(texto) > MAX_LEN
  /\ Len(salida) = MAX_LEN

\* C5 as stated: for an input longer than MAX_LEN, if the rightmost mark among
\* the first MAX_LEN characters is at position MIN_LEN or later, the output
\* is the input truncated just after that mark; otherwise it is the first
\* MAX_LEN characters without their trailing whitespace.
C5_CorteEnLaMarca ==
  (op = "recortar_a_rango" /\ Len(texto) > MAX_LEN) =>
    LET m == UltimaMarca(texto, MAX_LEN)
    IN  IF m >= MIN_LEN
          THEN salida = SubSeq(texto, 1, m) /\ salida[Len(salida)] = texto[m]
          ELSE salida = rstrip(SubSeq(texto, 1, MAX_LEN))

\* C5 as amended: as stated, except that the text truncated just after the
\* mark also loses its leading whitespace; it still ends with that mark.
C5_CorteEnLaMarcaSinBlancosIniciales ==
  (op = "recortar_a_rango" /\ Len(texto) > MAX_LEN) =>
    LET m == UltimaMarca(texto, MAX_LEN)
    IN  IF m >= MIN_LEN
          THEN /\ salida = lstrip(SubSeq(texto, 1, m))
               /\ salida[Len(salida)] = texto[m]
          ELSE salida = rstrip(SubSeq(texto, 1, MAX_LEN))

\* C5 witness: an input that starts with a blank, cut after a mark at position
\* MIN_LEN exactly.
C5_Testigo ==
  /\ op = "recortar_a_rango"
  /\ Len(texto) > MAX_LEN
  /\ texto[1] = " "
  /\ UltimaMarca(texto, MAX_LEN) = MIN_LEN
  /\ Len(salida) = MIN_LEN - 1

\* C6: limpiar_formato is idempotent: applied to its own output it returns
\* that output.
C6_Idempotente ==
  op = "limpiar_formato" => limpiar_formato(salida) = salida

\* C7 as stated: when the input holds at least 4 marks, the output of
\* limitar_oraciones(text, 4) holds at most 4 marks.
C7_AlMasCuatroMarcas ==
  (op = "limitar_oraciones" /\ NumMarcas(texto) >= 4) => NumMarcas(salida) <= 4

\* C7 as amended: the output of limitar_oraciones(text, 4) holds at most 4
\* sentences as the function splits them, that is at most 3 places where
\* whitespace follows a mark; marks with no whitespace after them are not
\* counted.  An input with at most 3 such places is returned unchanged.
C7_AlMasCuatroOraciones ==
  op = "limitar_oraciones" =>
    /\ NumSeparadores(salida) <= 3
    /\ NumSeparadores(texto) <= 3 => salida = texto

\* C7 witness: an input with at least 4 marks and more than 4 sentences has
\* been cut to 4 sentences.
C7_Testigo ==
  /\ op = "limitar_oraciones"
  /\ NumMarcas(texto) >= 4
  /\ NumSeparadores(texto) >= 4
  /\ salida # texto
  /\ NumSeparadores(salida) = 3

\* C11: the output of postprocesar has at most MAX_LEN characters, for every
\* raw text and either persona, also when asegurar_pregunta appends a stock
\* question after recortar_a_rango has run.
C11_SalidaAcotada ==
  op = "postprocesar" => Len(salida) <= MAX_LEN

(***************************************************************************)
(* _extraer_contenido_ollama                                               *)
(* A decoded JSON body is a record with a tipo tag ("dict", or "otro" for   *)
(* any other JSON value).  payload.get(k) of a missing key, and a value of  *)
(* the wrong type where a str is tested, are the empty optional <<>>.       *)
(***************************************************************************)
\* isinstance(c, str) and c.strip(), for an optional text c
EsTextoNoVacio(c) == c # <<>> /\ strip(c[1]) # <<>>

\* rol = msg.get("role") or msg.get("type")
Rol(msg) == IF msg.role # <<>> THEN msg.role ELSE msg.type

\* for msg in reversed(mensajes), from 1-based position i downwards
RECURSIVE BuscarEnMensajes(_, _)
BuscarEnMensajes(mensajes, i) ==
  IF i < 1 THEN <<>>
  ELSE LET msg == mensajes[i]
       IN  IF msg.tipo # "dict" THEN BuscarEnMensajes(mensajes, i - 1)
           ELSE IF /\ Rol(msg) \in {<<"assistant">>, <<"model">>}
                   /\ EsTextoNoVacio(msg.content)
             THEN msg.content
             ELSE BuscarEnMensajes(mensajes, i - 1)

\* the optional text the function returns
_extraer_contenido_ollama(payload) ==
  IF payload.tipo # "dict" THEN <<>>
  ELSE
    LET message == payload.message
        enMessage ==
          IF message # <<>> /\ message[1].tipo = "dict"
                            /\ EsTextoNoVacio(message[1].content)
            THEN message[1].content ELSE <<>>
        mensajes == payload.messages
        enMensajes ==
          IF mensajes # <<>> THEN BuscarEnMensajes(mensajes[1], Len(mensajes[1]))
          ELSE <<>>
        respuesta == payload.response
    IN  IF enMessage # <<>> THEN enMessage
        ELSE IF enMensajes # <<>> THEN enMensajes
        ELSE IF EsTextoNoVacio(respuesta) THEN respuesta
        ELSE <<>>

(***************************************************************************)
(* What the Ollama server can answer.                                      *)
(***************************************************************************)
Mensaje(role, type, content) ==
  [tipo |-> "dict", role |-> role, type |-> type, content |-> content]

NoDict == [tipo |-> "otro", role |-> <<>>, type |-> <<>>, content |-> <<>>]

Payload(message, messages, response) ==
  [tipo |-> "dict", message |-> message, messages |-> messages, response |-> response]

PayloadNoDict ==
  [tipo |-> "otro", message |-> <<>>, messages |-> <<>>, response |-> <<>>]

\* bodies of every shape the extraction distinguishes, with short contents
PayloadsVariados ==
  {PayloadNoDict} \cup
  {Payload(message, messages, response) :
     message \in {<<>>, <<NoDict>>,
                  <<Mensaje(<<>>, <<>>, <<>>)>>,
                  <<Mensaje(<<>>, <<>>, <<<<" ">>>>)>>,
                  <<Mensaje(<<>>, <<>>, <<<<"m", " ">>>>)>>},
     messages \in {<<>>, << <<>> >>,
                   << <<Mensaje(<<"assistant">>, <<>>, <<<<"l">>>>)>> >>,
                   << <<Mensaje(<<"user">>, <<"model">>, <<<<"k">>>>)>> >>,
                   << <<Mensaje(<<"assistant">>, <<>>, <<<<"l">>>>),
                        Mensaje(<<"user">>, <<>>, <<<<"k">>>>)>> >>,
                   << <<Mensaje(<<"assistant">>, <<>>, <<<<"l">>>>),
                        Mensaje(<<>>, <<"model">>, <<<<" ", "k">>>>)>> >>,
                   << <<NoDict, Mensaje(<<"assistant">>, <<>>, <<<<" ">>>>)>> >>},
     response \in {<<>>, <<<<>>>>, <<<<"r">>>>}}

\* first drafts and second drafts of a persona
BorradorCorto == <<"B", "u", "y", ".", " ", "R", "O", "E", ".">>

\* two sentences, n characters in all
BorradorDosOraciones(n) ==
  Repetir("a", 200) \o <<".", " ">> \o Repetir("b", n - 203) \o <<"?">>

\* one sentence, n characters in all
BorradorUnaOracion(n) == Repetir("a", n - 1) \o <<".">>

Borradores ==
  {BorradorCorto,
   BorradorDosOraciones(MIN_LEN - 1),
   BorradorDosOraciones(MIN_LEN),
   BorradorUnaOracion(MIN_LEN + 1),
   BorradorDosOraciones(MAX_LEN + 1)}

\* a stub server that answers with a draft, or with a body without content
PayloadsBorradores ==
  {Payload(<<Mensaje(<<>>, <<>>, <<d>>)>>, <<>>, <<>>) : d \in Borradores}
    \cup {Payload(<<>>, <<>>, <<<<" ">>>>)}

RespuestasDe(s) ==
  IF s = "variado" THEN PayloadsVariados
  ELSE IF s = "borradores" THEN PayloadsBorradores
  ELSE {}

(***************************************************************************)
(* ollama_request                                                          *)
(***************************************************************************)
\* bound on the attempt budgets tried
MaxIntentos == 3

\* lines 203-222: from the call to the head of the loop.  r is the optional
\* argument retries; range(1, intentos + 1) is empty when intentos < 1 and the
\* function then raises at once.
EntrarOllama(r) ==
  LET n == IF r # <<>> THEN r[1] ELSE ollama_retries
  IN  /\ retries' = r
      /\ intentos' = n
      /\ espera' = 1
      /\ last_error' = <<>>
      /\ intento' = IF n >= 1 THEN 1 ELSE 0
      /\ o_pc' = IF n >= 1 THEN "bucle" ELSE "fallado"
      /\ o_ret' = <<>>
      /\ peticiones' = 0
      /\ esperas' = <<>>
      /\ historial' = <<>>
      /\ ultimo_payload' = <<>>
      /\ UNCHANGED <<servidor, ollama_retries>>

\* ollama_request called by a client of its own, with any retries argument
LlamarOllama ==
  /\ g_pc = "ninguno"
  /\ o_pc = "inactivo"
  /\ \E r \in {<<>>} \cup {<<n>> : n \in 0..MaxIntentos} : EntrarOllama(r)
  /\ UNCHANGED <<varsTexto, varsGenerar, varsMemoria, varsDebate>>

\* lines 226-236 of one attempt whose body carries content: the function
\* returns it stripped
ExitoDelIntento(payload) ==
  LET contenido == _extraer_contenido_ollama(payload)
  IN  /\ contenido # <<>>
      /\ o_ret' = <<strip(contenido[1])>>
      /\ ultimo_payload' = <<payload>>
      /\ o_pc' = "retornado"
      /\ peticiones' = peticiones + 1
      /\ historial' = Append(historial, "ok")
      /\ UNCHANGED <<servidor, ollama_retries, retries, intentos, intento, espera,
                     last_error, esperas>>

\* mutant: the wait is not doubled
TrasElFallo_sin_doblar(exc) ==
  /\ last_error' = <<exc>>
  /\ peticiones' = peticiones + 1
  /\ historial' = Append(historial, "fallo")
  /\ IF intento < intentos
       THEN /\ esperas' = Append(esperas, espera)
            /\ espera' = espera
            /\ intento' = intento + 1
            /\ o_pc' = "bucle"
       ELSE /\ o_pc' = "fallado"
            /\ UNCHANGED <<esperas, espera, intento>>
  /\ UNCHANGED <<servidor, ollama_retries, retries, intentos, o_ret>>

\* lines 237-245: the except clause, and the raise after the loop when this
\* was the last attempt
TrasElFallo(exc) ==
  /\ last_error' = <<exc>>
  /\ peticiones' = peticiones + 1
  /\ historial' = Append(historial, "fallo")
  /\ IF intento < intentos
       THEN /\ esperas' = Append(esperas, espera)
            /\ espera' = espera * 2
            /\ intento' = intento + 1
            /\ o_pc' = "bucle"
       ELSE /\ o_pc' = "fallado"
            /\ UNCHANGED <<esperas, espera, intento>>
  /\ UNCHANGED <<servidor, ollama_retries, retries, intentos, o_ret>>

IntentoConContenido ==
  /\ o_pc = "bucle"
  /\ \E payload \in RespuestasDe(servidor) : ExitoDelIntento(payload)
  /\ UNCHANGED <<varsTexto, varsGenerar, varsMemoria, varsDebate>>

\* an attempt that ends in requests.post or raise_for_status raising a
\* RequestException, or in respuesta.json() raising a ValueError
IntentoSinRespuesta ==
  /\ o_pc = "bucle"
  /\ \E exc \in {"RequestException", "ValueError"} : TrasElFallo(exc)
  /\ UNCHANGED ultimo_payload
  /\ UNCHANGED <<varsTexto, varsGenerar, varsMemoria, varsDebate>>

\* an attempt whose body carries no content: line 235 raises RuntimeError
IntentoSinContenido ==
  /\ o_pc = "bucle"
  /\ \E payload \in RespuestasDe(servidor) :
       /\ _extraer_contenido_ollama(payload) = <<>>
       /\ ultimo_payload' = <<payload>>
  /\ TrasElFallo("RuntimeError")
  /\ UNCHANGED <<varsTexto, varsGenerar, varsMemoria, varsDebate>>

InitOllama ==
  /\ servidor = "variado"
  /\ ollama_retries \in 0..MaxIntentos
  /\ OllamaSinLlamar
  /\ TextoInactivo /\ GenerarInactivo /\ MemoriaInactiva /\ DebateInactivo

NextOllama ==
  \/ LlamarOllama
  \/ IntentoConContenido
  \/ IntentoSinRespuesta
  \/ IntentoSinContenido

SpecOllama == InitOllama /\ [][NextOllama]_vars

(***************************************************************************)
(* Properties of ollama_request (SpecOllama).                              *)
(***************************************************************************)
\* the attempt budget of the call: the retries argument, else OLLAMA_RETRIES
Presupuesto == IF retries # <<>> THEN retries[1] ELSE ollama_retries

\* number of failed attempts so far
Fallos == Len(SelectSeq(historial, LAMBDA h : h = "fallo"))

\* 2^k
RECURSIVE Potencia2(_)
Potencia2(k) == IF k = 0 THEN 1 ELSE 2 * Potencia2(k - 1)

\* C10: with attempt budget n, ollama_request makes at most n requests; only
\* the last attempt made can be a success, and then the call has returned the
\* content of that attempt's body; it has raised exactly when all n attempts
\* have failed; the waits are 1, 2, 4, ... seconds, one after every failed
\* attempt except the n-th; a body without content is a failed attempt.
C10_ReintentosConEsperaExponencial ==
  o_pc # "inactivo" =>
    LET n == Presupuesto
        k == Len(historial)
        nEsperas == IF o_pc = "fallado" /\ Fallos >= 1 THEN Fallos - 1 ELSE Fallos
    IN  /\ peticiones = k
        /\ peticiones <= n
        /\ \A i \in 1..(k - 1) : historial[i] = "fallo"
        /\ (o_pc = "retornado") <=> (k >= 1 /\ historial[k] = "ok")
        /\ o_pc = "retornado" =>
             /\ ultimo_payload # <<>>
             /\ _extraer_contenido_ollama(ultimo_payload[1]) # <<>>
             /\ o_ret = <<strip(_extraer_contenido_ollama(ultimo_payload[1])[1])>>
        /\ (o_pc = "fallado") <=> (Fallos = n)
        /\ esperas = [i \in 1..nEsperas |-> Potencia2(i - 1)]
        /\ (ultimo_payload # <<>> /\ _extraer_contenido_ollama(ultimo_payload[1]) = <<>>)
             => (k >= 1 /\ historial[k] = "fallo")

\* C10 witness: a call with a budget of 3 has raised after three failed
\* attempts, the last one a body without content, having waited 1 and 2.
C10_Testigo ==
  /\ o_pc = "fallado"
  /\ Presupuesto = 3
  /\ peticiones = 3
  /\ esperas = <<1, 2>>
  /\ last_error = <<"RuntimeError">>

(***************************************************************************)
(* generar_respuesta                                                       *)
(* Both ollama_request calls pass no retries argument.  The call runs as    *)
(* the attempt actions above; generar_respuesta goes on when o_pc shows     *)
(* that the call has returned or raised.                                    *)
(***************************************************************************)
\* line 285: return postprocesar(texto, personaje), k the index
\* random.choice picks
Retornar(t, k) ==
  /\ g_resultado' = <<postprocesar(t, g_personaje, k)>>
  /\ g_eleccion' = k
  /\ g_pc' = "hecho"

\* lines 249-269: the primary call
LlamadaPrimaria ==
  /\ g_pc = "inicio"
  /\ g_pc' = "primaria"
  /\ EntrarOllama(<<>>)
  /\ UNCHANGED <<g_personaje, g_texto, g_resultado, g_error, g_eleccion,
                 llamadas, borradores>>
  /\ UNCHANGED <<varsTexto, varsMemoria, varsDebate>>

\* lines 270-271: the primary call raised; a RuntimeError naming the persona
\* is raised from it
PrimariaFalla ==
  /\ g_pc = "primaria"
  /\ o_pc = "fallado"
  /\ g_pc' = "error"
  /\ g_error' = <<g_personaje>>
  /\ llamadas' = Append(llamadas, "fallo")
  /\ UNCHANGED <<g_personaje, g_texto, g_resultado, g_eleccion, borradores>>
  /\ UNCHANGED <<varsTexto, varsOllama, varsMemoria, varsDebate>>

\* lines 263 and 273-281: the primary call returned a draft that es_corto
\* finds too short; the second call is made
PrimariaCorta ==
  /\ g_pc = "primaria"
  /\ o_pc = "retornado"
  /\ es_corto(o_ret[1])
  /\ g_texto' = o_ret
  /\ llamadas' = Append(llamadas, "ok")
  /\ borradores' = Append(borradores, o_ret[1])
  /\ g_pc' = "reintento"
  /\ EntrarOllama(<<>>)
  /\ UNCHANGED <<g_personaje, g_resultado, g_error, g_eleccion>>
  /\ UNCHANGED <<varsTexto, varsMemoria, varsDebate>>

\* lines 263, 273 and 285: the primary call returned a draft that is not too
\* short
PrimariaBasta ==
  /\ g_pc = "primaria"
  /\ o_pc = "retornado"
  /\ ~es_corto(o_ret[1])
  /\ g_texto' = o_ret
  /\ llamadas' = Append(llamadas, "ok")
  /\ borradores' = Append(borradores, o_ret[1])
  /\ \E k \in 1..3 : Retornar(o_ret[1], k)
  /\ UNCHANGED <<g_personaje, g_error>>
  /\ UNCHANGED <<varsTexto, varsOllama, varsMemoria, varsDebate>>

\* mutant: the failure of the second call is raised like that of the first
ReintentoFalla_propaga ==
  /\ g_pc = "reintento"
  /\ o_pc = "fallado"
  /\ g_pc' = "error"
  /\ g_error' = <<g_personaje>>
  /\ llamadas' = Append(llamadas, "fallo")
  /\ UNCHANGED <<g_personaje, g_texto, g_resultado, g_eleccion, borradores>>
  /\ UNCHANGED <<varsTexto, varsOllama, varsMemoria, varsDebate>>

\* lines 282-285: the second call raised; except RuntimeError: pass
ReintentoFalla ==
  /\ g_pc = "reintento"
  /\ o_pc = "fallado"
  /\ llamadas' = Append(llamadas, "fallo")
  /\ \E k \in 1..3 : Retornar(g_texto[1], k)
  /\ UNCHANGED <<g_personaje, g_texto, g_error, borradores>>
  /\ UNCHANGED <<varsTexto, varsOllama, varsMemoria, varsDebate>>

\* mutant: the text of the second call is dropped and the first draft shaped
ReintentoRetorna_usa_el_primero ==
  /\ g_pc = "reintento"
  /\ o_pc = "retornado"
  /\ llamadas' = Append(llamadas, "ok")
  /\ borradores' = Append(borradores, o_ret[1])
  /\ \E k \in 1..3 : Retornar(g_texto[1], k)
  /\ UNCHANGED <<g_personaje, g_texto, g_error>>
  /\ UNCHANGED <<varsTexto, varsOllama, varsMemoria, varsDebate>>

\* lines 275 and 285: the second call returned; its text replaces the first
ReintentoRetorna ==
  /\ g_pc = "reintento"
  /\ o_pc = "retornado"
  /\ g_texto' = o_ret
  /\ llamadas' = Append(llamadas, "ok")
  /\ borradores' = Append(borradores, o_ret[1])
  /\ \E k \in 1..3 : Retornar(o_ret[1], k)
  /\ UNCHANGED <<g_personaje, g_error>>
  /\ UNCHANGED <<varsTexto, varsOllama, varsMemoria, varsDebate>>

InitGenerar ==
  /\ g_pc = "inicio"
  /\ g_personaje \in Personajes
  /\ g_texto = <<>>
  /\ g_resultado = <<>>
  /\ g_error = <<>>
  /\ g_eleccion = 0
  /\ llamadas = <<>>
  /\ borradores = <<>>
  /\ servidor = "borradores"
  /\ ollama_retries \in 0..MaxIntentos
  /\ OllamaSinLlamar
  /\ TextoInactivo /\ MemoriaInactiva /\ DebateInactivo

NextGenerar ==
  \/ LlamadaPrimaria
  \/ IntentoConContenido
  \/ IntentoSinRespuesta
  \/ IntentoSinContenido
  \/ PrimariaFalla
  \/ PrimariaCorta
  \/ PrimariaBasta
  \/ ReintentoFalla
  \/ ReintentoRetorna

SpecGenerar == InitGenerar /\ [][NextGenerar]_vars

(***************************************************************************)
(* Properties of generar_respuesta (SpecGenerar).                          *)
(***************************************************************************)
\* generar_respuesta has returned or raised
GenerarTerminado == g_pc \in {"hecho", "error"}

\* ollama_request calls made so far, the one in progress included
LlamadasHechas ==
  Len(llamadas) + (IF g_pc \in {"primaria", "reintento"} THEN 1 ELSE 0)

\* C2: if the primary call fails, generar_respuesta raises an error naming
\* the persona and returns no text; if the primary call succeeds with a draft
\* that is too short and only the second call fails, it raises nothing and
\* returns postprocesar of the first draft.
C2_FalloAsimetrico ==
  /\ (llamadas # <<>> /\ llamadas[1] = "fallo") =>
       /\ g_pc = "error"
       /\ g_error = <<g_personaje>>
       /\ g_resultado = <<>>
       /\ Len(llamadas) = 1
  /\ g_pc = "error" => llamadas = <<"fallo">>
  /\ llamadas = <<"ok", "fallo">> =>
       /\ g_pc = "hecho"
       /\ g_error = <<>>
       /\ es_corto(borradores[1])
       /\ g_resultado = <<postprocesar(borradores[1], g_personaje, g_eleccion)>>

\* C2 witness: the second call has failed after a short first draft and the
\* function has returned a text.
C2_Testigo ==
  /\ llamadas = <<"ok", "fallo">>
  /\ g_pc = "hecho"
  /\ g_resultado # <<>>

\* C3: generar_respuesta makes a second call exactly when es_corto finds the
\* first draft too short, and never a third; when the second call succeeds
\* the text shaped and returned is the second draft, short or not.
C3_UnSoloReintento ==
  /\ LlamadasHechas <= 2
  /\ LlamadasHechas = 2 => es_corto(borradores[1])
  /\ g_pc = "hecho" =>
       /\ (Len(llamadas) = 2) <=> es_corto(borradores[1])
       /\ (Len(llamadas) = 1) <=> ~es_corto(borradores[1])
       /\ g_eleccion \in 1..3
       /\ llamadas = <<"ok">> =>
            g_resultado = <<postprocesar(borradores[1], g_personaje, g_eleccion)>>
       /\ llamadas = <<"ok", "ok">> =>
            g_resultado = <<postprocesar(borradores[2], g_personaje, g_eleccion)>>

\* C3 witness: both calls succeeded, the second draft differs from the first
\* and is itself too short, and the function has returned.
C3_Testigo ==
  /\ g_pc = "hecho"
  /\ llamadas = <<"ok", "ok">>
  /\ borradores[1] # borradores[2]
  /\ es_corto(borradores[2])

(***************************************************************************)
(* MemoriaDebate                                                           *)
(***************************************************************************)
\* the names the callers record; "PEG" is used as a metric, a company and a
\* topic
NombresMetricas == {"ROE", "P/B", "PEG"}
NombresEmpresas == {"BYD", "PEG"}
NombresTemas == {"PEG"}

\* the fixed phrases of the hint
FraseMetricas == "Evita repetir metricas ya mencionadas: "
FraseEmpresas == "Evita repetir empresas ya mencionadas: "
FraseTemas == "Varia el tema, ya se hablo de: "

\* the orders in which iterating over a set can yield its elements
Ordenes(S) ==
  {o \in [1..Cardinality(S) -> S] : \A i, j \in 1..Cardinality(S) : i # j => o[i] # o[j]}

\* f"{frase}{', '.join(orden)}."
Clausula(frase, orden) ==
  <<frase>> \o join(<<", ">>, [i \in 1..Len(orden) |-> <<orden[i]>>]) \o <<".">>

\* __init__
InitMemoria ==
  /\ metricas_buffett = {}
  /\ metricas_cheah = {}
  /\ empresas = {}
  /\ temas = {}
  /\ m_op = "__init__"
  /\ m_personaje = "-"
  /\ contexto = <<>>
  /\ dichas = [buffett |-> {}, cheah |-> {}, empresas |-> {}, temas |-> {}]
  /\ TextoInactivo /\ OllamaInactivo /\ GenerarInactivo /\ DebateInactivo

\* mutant: the metrics of every persona go to the first set
registrar_metricas_sin_distinguir(p, metricas) ==
  /\ metricas_buffett' = metricas_buffett \cup metricas
  /\ UNCHANGED metricas_cheah

\* registrar_metricas(personaje, metricas): the fields it updates
registrar_metricas(p, metricas) ==
  IF p = "buffett"
    THEN /\ metricas_buffett' = metricas_buffett \cup metricas
         /\ UNCHANGED metricas_cheah
    ELSE /\ metricas_cheah' = metricas_cheah \cup metricas
         /\ UNCHANGED metricas_buffett

RegistrarMetricas ==
  /\ \E p \in Personajes, metricas \in SUBSET NombresMetricas :
       /\ registrar_metricas(p, metricas)
       /\ dichas' = [dichas EXCEPT ![p] = @ \cup metricas]
  /\ m_op' = "registrar_metricas"
  /\ UNCHANGED <<empresas, temas, m_personaje, contexto>>
  /\ UNCHANGED <<varsTexto, varsOllama, varsGenerar, varsDebate>>

RegistrarEmpresas ==
  /\ \E nuevas \in SUBSET NombresEmpresas :
       /\ empresas' = empresas \cup nuevas
       /\ dichas' = [dichas EXCEPT !.empresas = @ \cup nuevas]
  /\ m_op' = "registrar_empresas"
  /\ UNCHANGED <<metricas_buffett, metricas_cheah, temas, m_personaje, contexto>>
  /\ UNCHANGED <<varsTexto, varsOllama, varsGenerar, varsDebate>>

RegistrarTema ==
  /\ \E tema \in NombresTemas :
       /\ temas' = temas \cup {tema}
       /\ dichas' = [dichas EXCEPT !.temas = @ \cup {tema}]
  /\ m_op' = "registrar_tema"
  /\ UNCHANGED <<metricas_buffett, metricas_cheah, empresas, m_personaje, contexto>>
  /\ UNCHANGED <<varsTexto, varsOllama, varsGenerar, varsDebate>>

\* obtener_contexto_evitacion(p), with om, oe, ot the orders in which the
\* three joins iterate: " ".join(contexto)
obtener_contexto_evitacion(p, om, oe, ot) ==
  LET c1 == IF p = "buffett" /\ metricas_buffett # {}
              THEN <<Clausula(FraseMetricas, om)>> ELSE <<>>
      c2 == IF p = "cheah" /\ metricas_cheah # {}
              THEN <<Clausula(FraseMetricas, om)>> ELSE <<>>
      c3 == IF empresas # {} THEN <<Clausula(FraseEmpresas, oe)>> ELSE <<>>
      c4 == IF temas # {} THEN <<Clausula(FraseTemas, ot)>> ELSE <<>>
  IN  join(<<" ">>, c1 \o c2 \o c3 \o c4)

ObtenerContextoEvitacion ==
  /\ \E p \in Personajes :
       \E om \in Ordenes(IF p = "buffett" THEN metricas_buffett ELSE metricas_cheah),
          oe \in Ordenes(empresas), ot \in Ordenes(temas) :
            /\ contexto' = obtener_contexto_evitacion(p, om, oe, ot)
            /\ m_personaje' = p
  /\ m_op' = "obtener_contexto_evitacion"
  /\ UNCHANGED <<metricas_buffett, metricas_cheah, empresas, temas, dichas>>
  /\ UNCHANGED <<varsTexto, varsOllama, varsGenerar, varsDebate>>

NextMemoria ==
  \/ RegistrarMetricas
  \/ RegistrarEmpresas
  \/ RegistrarTema
  \/ ObtenerContextoEvitacion

SpecMemoria == InitMemoria /\ [][NextMemoria]_vars

(***************************************************************************)
(* Properties of MemoriaDebate (SpecMemoria).                              *)
(***************************************************************************)
\* the names the metrics clause of hint c lists: the ones between its phrase
\* and the full stop that ends the clause
MetricasNombradas(c) ==
  IF c = <<>> \/ c[1] # FraseMetricas THEN {}
  ELSE LET fin == CHOOSE i \in 1..Len(c) :
                    c[i] = "." /\ \A j \in 1..(i - 1) : c[j] # "."
       IN  {c[i] : i \in 2..(fin - 1)} \ {", "}

MaxTurns == 3

Respuestas == {"r1", "r2"}

ClavesAPI == {"OPENAI_API_KEY", "DEEPSEEK_API_KEY"}

\* the opening message of debate(), main.py lines 298-302, abbreviated
Apertura == "Warren, ..."

\* alternating_clients(first_speaker)
alternating_clients(fs) ==
  IF fs = "deepseek" THEN <<"deepseek", "openai">> ELSE <<"openai", "deepseek">>

\* clients[key][1]
display_name(key) == IF key = "openai" THEN "ChatGPT" ELSE "DeepSeek"

\* mutant: the first of the two speaks every turn
key_sin_alternar(o, t) == o[1]

\* key = order[turn % 2], on 1-based sequences
key(o, t) == o[(t % 2) + 1]

InitDebate ==
  /\ programa \in {"run_debate", "debate"}
  /\ d_pc = "inicio"
  /\ turns \in -1..MaxTurns
  /\ IF programa = "run_debate"
       THEN /\ claves \in SUBSET ClavesAPI
            /\ first_speaker \in {"openai", "deepseek"}
       ELSE /\ claves = {}
            /\ first_speaker = "-"
  /\ order = <<>>
  /\ turn = 0
  /\ transcript = <<>>
  /\ mensaje = "-"
  /\ buffett_respuesta = "-"
  /\ hablante = "-"
  /\ generaciones = <<>>
  /\ TextoInactivo /\ OllamaInactivo /\ GenerarInactivo /\ MemoriaInactiva

\* ai_debate.py lines 131-132: a ChatClient constructor raises RuntimeError
ClaveAusente ==
  /\ programa = "run_debate"
  /\ d_pc = "inicio"
  /\ claves # ClavesAPI
  /\ d_pc' = "error"
  /\ UNCHANGED <<programa, claves, turns, first_speaker, order, turn, transcript,
                 mensaje, buffett_respuesta, hablante, generaciones>>
  /\ UNCHANGED <<varsTexto, varsOllama, varsGenerar, varsMemoria>>

\* ai_debate.py lines 131-140: up to the head of the loop
IniciarRunDebate ==
  /\ programa = "run_debate"
  /\ d_pc = "inicio"
  /\ claves = ClavesAPI
  /\ transcript' = <<>>
  /\ order' = alternating_clients(first_speaker)
  /\ turn' = 0
  /\ d_pc' = "bucle"
  /\ UNCHANGED <<programa, claves, turns, first_speaker,
                 mensaje, buffett_respuesta, hablante, generaciones>>
  /\ UNCHANGED <<varsTexto, varsOllama, varsGenerar, varsMemoria>>

\* ai_debate.py lines 142-150: one iteration whose complete() call returns
TurnoRunDebate ==
  /\ programa = "run_debate"
  /\ d_pc = "bucle"
  /\ turn < turns
  /\ \E reply \in Respuestas :
       LET line == <<display_name(key(order, turn)), ": ", reply>>
       IN  transcript' = Append(transcript, line)
  /\ turn' = turn + 1
  /\ UNCHANGED <<programa, d_pc, claves, turns, first_speaker, order,
                 mensaje, buffett_respuesta, hablante, generaciones>>
  /\ UNCHANGED <<varsTexto, varsOllama, varsGenerar, varsMemoria>>

\* ai_debate.py line 145: complete() raises (HTTP error, unexpected payload)
\* and run_debate does not catch it
TurnoRunDebateFalla ==
  /\ programa = "run_debate"
  /\ d_pc = "bucle"
  /\ turn < turns
  /\ d_pc' = "error"
  /\ UNCHANGED <<programa, claves, turns, first_speaker, order, turn, transcript,
                 mensaje, buffett_respuesta, hablante, generaciones>>
  /\ UNCHANGED <<varsTexto, varsOllama, varsGenerar, varsMemoria>>

\* ai_debate.py line 152: range(turns) is exhausted; return transcript
RetornarTranscript ==
  /\ programa = "run_debate"
  /\ d_pc = "bucle"
  /\ turn >= turns
  /\ d_pc' = "retornado"
  /\ UNCHANGED <<programa, claves, turns, first_speaker, order, turn, transcript,
                 mensaje, buffett_respuesta, hablante, generaciones>>
  /\ UNCHANGED <<varsTexto, varsOllama, varsGenerar, varsMemoria>>

\* main.py lines 298-304: debate(turnos) up to the head of the loop
AbrirDebate ==
  /\ programa = "debate"
  /\ d_pc = "inicio"
  /\ mensaje' = Apertura
  /\ turn' = 0
  /\ hablante' = "buffett"
  /\ d_pc' = "bucle"
  /\ UNCHANGED <<programa, claves, turns, first_speaker, order, transcript,
                 buffett_respuesta, generaciones>>
  /\ UNCHANGED <<varsTexto, varsOllama, varsGenerar, varsMemoria>>

\* main.py line 308: generar_respuesta(buffett_prompt, mensaje, "buffett")
\* returns
GenerarBuffett ==
  /\ programa = "debate"
  /\ d_pc = "bucle"
  /\ turn < turns
  /\ hablante = "buffett"
  /\ \E r \in Respuestas :
       /\ buffett_respuesta' = r
       /\ generaciones' = Append(generaciones,
            [personaje |-> "buffett", mensaje |-> mensaje, respuesta |-> r])
  /\ hablante' = "cheah"
  /\ UNCHANGED <<programa, d_pc, claves, turns, first_speaker, order, turn,
                 transcript, mensaje>>
  /\ UNCHANGED <<varsTexto, varsOllama, varsGenerar, varsMemoria>>

\* main.py lines 310-312: generar_respuesta(cheah_prompt, buffett_respuesta,
\* "cheah") returns; mensaje = cheah_respuesta
GenerarCheah ==
  /\ programa = "debate"
  /\ d_pc = "bucle"
  /\ hablante = "cheah"
  /\ \E r \in Respuestas :
       /\ mensaje' = r
       /\ generaciones' = Append(generaciones,
            [personaje |-> "cheah", mensaje |-> buffett_respuesta, respuesta |-> r])
  /\ hablante' = "buffett"
  /\ turn' = turn + 1
  /\ UNCHANGED <<programa, d_pc, claves, turns, first_speaker, order,
                 transcript, buffett_respuesta>>
  /\ UNCHANGED <<varsTexto, varsOllama, varsGenerar, varsMemoria>>

\* main.py lines 308 and 310: generar_respuesta raises RuntimeError and
\* debate() does not catch it
GeneracionFalla ==
  /\ programa = "debate"
  /\ d_pc = "bucle"
  /\ hablante = "cheah" \/ turn < turns
  /\ d_pc' = "error"
  /\ UNCHANGED <<programa, claves, turns, first_speaker, order, turn, transcript,
                 mensaje, buffett_respuesta, hablante, generaciones>>
  /\ UNCHANGED <<varsTexto, varsOllama, varsGenerar, varsMemoria>>

\* main.py line 306: range(turnos) is exhausted
TerminarDebate ==
  /\ programa = "debate"
  /\ d_pc = "bucle"
  /\ hablante = "buffett"
  /\ turn >= turns
  /\ d_pc' = "retornado"
  /\ UNCHANGED <<programa, claves, turns, first_speaker, order, turn, transcript,
                 mensaje, buffett_respuesta, hablante, generaciones>>
  /\ UNCHANGED <<varsTexto, varsOllama, varsGenerar, varsMemoria>>

NextDebate ==
  \/ ClaveAusente
  \/ IniciarRunDebate
  \/ TurnoRunDebate
  \/ TurnoRunDebateFalla
  \/ RetornarTranscript
  \/ AbrirDebate
  \/ GenerarBuffett
  \/ GenerarCheah
  \/ GeneracionFalla
  \/ TerminarDebate

SpecDebate == InitDebate /\ [][NextDebate]_vars

(***************************************************************************)
(* Properties of the debate drivers (SpecDebate).                          *)
(***************************************************************************)
EnRunDebate == programa = "run_debate" /\ d_pc \in {"bucle", "retornado", "error"}

\* the display name of the speaker of the line at 0-based position n
Atribuida(n) == display_name(order[(n % 2) + 1])

\* the transcript grows only at its end
SoloAnade ==
  /\ Len(transcript') >= Len(transcript)
  /\ SubSeq(transcript', 1, Len(transcript)) = transcript

\* the lines of the transcript alternate from the configured first speaker
LineasAlternadas ==
  (EnRunDebate /\ order # <<>>) =>
    /\ order[1] = first_speaker
    /\ order[2] # order[1]
    /\ Len(transcript) = turn
    /\ \A n \in 0..(Len(transcript) - 1) : transcript[n + 1][1] = Atribuida(n)

\* every generation of debate() receives the text of the one before it
MensajesEncadenados ==
  \A k \in 1..Len(generaciones) :
    /\ generaciones[k].personaje = IF k % 2 = 1 THEN "buffett" ELSE "cheah"
    /\ generaciones[k].mensaje =
         IF k = 1 THEN Apertura ELSE generaciones[k - 1].respuesta

=============================================================================
